---- MODULE Spec2Model ----
(***************************************************************************)
(* Quality-gated report workflow of financial-report-generator.            *)
(*                                                                         *)
(* The LangGraph graph built by create_report_workflow is modelled node by *)
(* node.  Strings are modelled by the features the code reads from them:   *)
(*   - user_input by its whitespace-separated tokens (str.split()),        *)
(*   - a raw-data chunk by its length and the lower-cased company tokens   *)
(*     it contains,                                                        *)
(*   - a metric value by the set of vague keywords it contains,            *)
(*   - a report by its length, trimmed length, the section headers it      *)
(*     contains, the counts the report gate takes of it, and the company   *)
(*     named on the "**Company:**" line of its header.                     *)
(* Insights, trends and messages are kept as strings.                      *)
(***************************************************************************)
EXTENDS Integers, Sequences, FiniteSets, TLC

VARIABLES
    user_input,                 \* ReportState.user_input, as user_input.split()
    raw_data,                   \* ReportState.raw_data
    data_sources,               \* ReportState.data_sources
    key_metrics,                \* ReportState.key_metrics
    insights,                   \* ReportState.insights
    trends,                     \* ReportState.trends
    final_report,               \* ReportState.final_report
    current_step,               \* ReportState.current_step
    messages,                   \* ReportState.messages
    data_collection_attempts,   \* ReportState.data_collection_attempts
    writing_attempts,           \* ReportState.writing_attempts
    pc,                         \* the node or gate the driver runs next
    error,                      \* the exception that ended the run, or "none"
    executed,                   \* how often each node has run
    returned,                   \* the update returned by the node that ran last
    decision,                   \* the outcome of the gate that was evaluated last
    calls,                      \* the LLM and search calls of the node that ran last
    suspended,                  \* a second run, waiting while this one steps
    config,                     \* workflow.config: the keys create_report_workflow got
    rate_limit_store,           \* rate_limit_store: per client IP, the request times
    clock,                      \* datetime.now(), in ticks of half a minute
    admitted,                   \* per client IP, the admissions of the last minute
    last_response,              \* the request the middleware saw last and its status
    report_status               \* Report.status of the row of the background task

state == <<user_input, raw_data, data_sources, key_metrics, insights, trends,
           final_report, current_step, messages, data_collection_attempts,
           writing_attempts>>

vars == <<user_input, raw_data, data_sources, key_metrics, insights, trends,
          final_report, current_step, messages, data_collection_attempts,
          writing_attempts, pc, error, executed, returned, decision, calls,
          suspended, config, rate_limit_store, clock, admitted, last_response,
          report_status>>

\* what surrounds a run: the keys of its workflow, the rate limiter and the
\* report row
service == <<config, rate_limit_store, clock, admitted, last_response, report_status>>

----------------------------------------------------------------------------
(* Bounds of the model *)

\* most non-empty lines the query-generation LLM answers with
MaxQueries == 2

\* results a search returns when it finds something
ResultsPerQuery == 3

\* most tokens of a user input the functions are applied to on their own
MaxWords == 3

----------------------------------------------------------------------------
(* Sequence helpers *)

RECURSIVE Replicate(_, _)
Replicate(n, x) == IF n = 0 THEN <<>> ELSE <<x>> \o Replicate(n - 1, x)

RECURSIVE Flatten(_)
Flatten(ss) == IF ss = <<>> THEN <<>> ELSE Head(ss) \o Flatten(Tail(ss))

RECURSIVE SumOf(_)
SumOf(ns) == IF ns = <<>> THEN 0 ELSE Head(ns) + SumOf(Tail(ns))

Max(a, b) == IF a >= b THEN a ELSE b

----------------------------------------------------------------------------
(* Strings *)

\* str.lower() on the tokens the model uses
Lower(w) ==
    CASE w = "Acme" -> "acme"
      [] w = "Corp" -> "corp"
      [] w = "Zeta" -> "zeta"
      [] w = "Inc" -> "inc"
      [] w = "Report" -> "report"
      [] OTHER -> w

\* len(" ".join(words))
JoinLen(words) ==
    IF words = <<>> THEN 0
    ELSE SumOf([i \in DOMAIN words |-> Len(words[i])]) + (Len(words) - 1)

\* the user inputs a run can start with, each as user_input.split()
UserInputs == { <<>>, <<"Acme", "Corp">> }

\* the tokens of the user inputs the company-name extraction and the gates are
\* applied to on their own: two names and a noise word in title case
NameTokens == {"Acme", "Zeta", "Report"}

NameInputs == UNION {[1..n -> NameTokens] : n \in 1..MaxWords}

----------------------------------------------------------------------------
(* The search capability *)

\* a search result whose content names the company "Acme"
RelevantResult ==
    [content |-> [len |-> 500, mentions |-> {"acme"}], url |-> "https://a.example"]

\* a search result about something else
OtherResult ==
    [content |-> [len |-> 500, mentions |-> {}], url |-> "https://b.example"]

\* what the Tavily client does for one query: raise, or answer with results
SearchResponses ==
    { [ok |-> FALSE, results |-> <<>>],
      [ok |-> TRUE,  results |-> <<>>],
      [ok |-> TRUE,  results |-> Replicate(ResultsPerQuery, RelevantResult)],
      [ok |-> TRUE,  results |-> Replicate(ResultsPerQuery, OtherResult)] }

search_web(response) ==
    IF ~response.ok THEN <<>>                     \* except Exception: return []
    ELSE IF response.results = <<>> THEN <<>>     \* if not response.get('results')
    ELSE response.results

----------------------------------------------------------------------------
(* ReportState and the merge of a node's update into it *)

\* key_metrics = None of the initial state
None == [none |-> TRUE]

\* the empty dict {}
EmptyDict == [k \in {} |-> {}]

Nodes == {"data_collector", "analyst", "writer", "editor",
          "retry_data_collection", "retry_writing", "insufficient_data_handler"}

\* a last-value channel: the update replaces the old value
operator_add_overwrites(old, new) == new

\* Annotated[List[str], operator.add]: the update is appended to the old value
operator_add(old, new) == old \o new

Has(update, key) == key \in DOMAIN update

\* the state after a node's update: operator.add for the annotated fields,
\* last value for the others, untouched when the update has no such key
Merge(update) ==
    /\ user_input' = IF Has(update, "user_input") THEN update.user_input ELSE user_input
    /\ raw_data' = IF Has(update, "raw_data")
                   THEN operator_add(raw_data, update.raw_data) ELSE raw_data
    /\ data_sources' = IF Has(update, "data_sources")
                       THEN operator_add(data_sources, update.data_sources)
                       ELSE data_sources
    /\ key_metrics' = IF Has(update, "key_metrics") THEN update.key_metrics ELSE key_metrics
    /\ insights' = IF Has(update, "insights")
                   THEN operator_add(insights, update.insights) ELSE insights
    /\ trends' = IF Has(update, "trends")
                 THEN operator_add(trends, update.trends) ELSE trends
    /\ final_report' = IF Has(update, "final_report") THEN update.final_report
                       ELSE final_report
    /\ current_step' = IF Has(update, "current_step") THEN update.current_step
                       ELSE current_step
    /\ messages' = IF Has(update, "messages")
                   THEN operator_add(messages, update.messages) ELSE messages
    /\ data_collection_attempts' =
           IF Has(update, "data_collection_attempts")
           THEN update.data_collection_attempts ELSE data_collection_attempts
    /\ writing_attempts' = IF Has(update, "writing_attempts")
                           THEN update.writing_attempts ELSE writing_attempts

\* create_report_workflow() without keys, and with the keys of a user
NoKeys == [groq_api_key |-> "None", tavily_api_key |-> "None"]

UserKeys == [groq_api_key |-> "user groq key", tavily_api_key |-> "user tavily key"]

\* api_key or settings.GROQ_API_KEY, api_key or settings.TAVILY_API_KEY
key_or_default(api_key) == IF api_key = "None" THEN "server key" ELSE api_key

\* state.get("config", {}): ReportState has no "config", nothing writes one
state_config == [k \in {} |-> "None"]

\* config.get(name) on that dict
state_config_key(name) ==
    IF name \in DOMAIN state_config THEN state_config[name] ELSE "None"

\* a node that calls neither the LLM nor the search
NoCalls == [llm |-> 0, queries |-> 0, searches |-> 0, failed |-> 0, chunks |-> 0,
            llm_key |-> "None", search_key |-> "None"]

\* a node that calls llm.invoke once, on a client built without an api_key
LLMCall == [llm |-> 1, queries |-> 0, searches |-> 0, failed |-> 0, chunks |-> 0,
            llm_key |-> key_or_default("None"), search_key |-> "None"]

\* the client IPs of the requests
ClientIPs == {"10.0.0.1", "10.0.0.2"}

\* no request has come in
NoResponse == [ip |-> "none", path |-> "none", method |-> "none", status |-> 0]

\* rate_limit_store = defaultdict(list) and a clock at its start
NoRequests ==
    /\ rate_limit_store = [ip \in ClientIPs |-> <<>>]
    /\ clock = 0
    /\ admitted = [ip \in ClientIPs |-> <<>>]
    /\ last_response = NoResponse

\* no second run
NoRun == [pc |-> "none"]

\* the messages kept in one list that all runs append to
ReturnCalling_shared_messages(node, update, next, made) ==
    /\ Merge(update)
    /\ executed' = [executed EXCEPT ![node] = @ + 1]
    /\ returned' = update
    /\ pc' = next
    /\ calls' = made
    /\ suspended' = IF suspended = NoRun \/ ~Has(update, "messages") THEN suspended
                    ELSE [suspended EXCEPT !.messages = @ \o update.messages]
    /\ UNCHANGED <<error, decision, service>>

\* node `node` returns `update` after the calls `made` and the graph's edge
\* leads to `next`; the update is merged into the state of this run only
ReturnCalling(node, update, next, made) ==
    /\ Merge(update)
    /\ executed' = [executed EXCEPT ![node] = @ + 1]
    /\ returned' = update
    /\ pc' = next
    /\ calls' = made
    /\ UNCHANGED <<error, decision, suspended, service>>

\* node `node` returns `update` without a call to the LLM or the search
Return(node, update, next) == ReturnCalling(node, update, next, NoCalls)

\* node `node` raises after the calls `made`: invoke() propagates the exception,
\* the run is over
RaiseCalling(node, exception, made) ==
    /\ pc' = "raised"
    /\ error' = exception
    /\ executed' = [executed EXCEPT ![node] = @ + 1]
    /\ calls' = made
    /\ UNCHANGED <<state, returned, decision, suspended, service>>

\* node `node` raises before it calls the LLM or the search
Raise(node, exception) == RaiseCalling(node, exception, NoCalls)

\* a report with nothing in it: final_report = ""
EmptyReport ==
    [len |-> 0, strip |-> 0, sections |-> {}, vague |-> 0,
     base |-> EmptyDict, poss |-> EmptyDict, inc |-> EmptyDict,
     numbers |-> 0, phrases |-> {}, company |-> <<>>]

\* initial_state of generate_report, before the first node
RunInit ==
    /\ user_input \in UserInputs
    /\ raw_data = <<>>
    /\ data_sources = <<>>
    /\ key_metrics = None
    /\ insights = <<>>
    /\ trends = <<>>
    /\ final_report = EmptyReport
    /\ current_step = ""
    /\ messages = <<>>
    /\ data_collection_attempts = 0
    /\ writing_attempts = 0
    /\ pc = "data_collector"
    /\ error = "none"
    /\ executed = [n \in Nodes |-> 0]
    /\ returned = EmptyDict
    /\ decision = "none"
    /\ calls = NoCalls

\* one run on its own, of a workflow created without keys
Init ==
    /\ RunInit
    /\ suspended = NoRun
    /\ config = NoKeys
    /\ NoRequests
    /\ report_status = "none"

----------------------------------------------------------------------------
(* Data Collector *)

\* the contents and the urls the loop over the queries collects
CollectedContents(results) ==
    SelectSeq([i \in DOMAIN results |-> results[i].content], LAMBDA c : c.len > 0)

CollectedUrls(results) ==
    SelectSeq([i \in DOMAIN results |-> results[i].url], LAMBDA u : u # "")

\* company_name.lower() in chunk.lower()
Mentions(chunk, name) == Lower(name) \in chunk.mentions

\* sum(1 for chunk in chunks if company_name.lower() in chunk.lower())
MentionCount(chunks, name) ==
    Cardinality({i \in DOMAIN chunks : Mentions(chunks[i], name)})

\* for query in queries: every query is searched, whatever the searches
\* before it did
searched_queries(nq, responses) == nq

\* llm.invoke once, then search_web once per searched query
data_collector_calls(nq, responses) ==
    [llm |-> 1,
     queries |-> nq,
     searches |-> searched_queries(nq, responses),
     failed |-> Cardinality({i \in 1..searched_queries(nq, responses) :
                               ~responses[i].ok}),
     chunks |-> Len(CollectedContents(
                       Flatten([i \in 1..searched_queries(nq, responses) |->
                                   search_web(responses[i])]))),
     llm_key |-> key_or_default(state_config_key("groq_api_key")),
     search_key |-> IF searched_queries(nq, responses) = 0 THEN "None"
                    ELSE key_or_default(state_config_key("tavily_api_key"))]

\* the Data Collector without the return on an empty list of queries
data_collector_update_no_fail_fast(nq, responses) ==
    LET results == Flatten([i \in 1..nq |-> search_web(responses[i])])
        all_raw_data == CollectedContents(results)
        all_sources == CollectedUrls(results)
    IN  IF all_raw_data = <<>>
        THEN [raw_data |-> <<>>, data_sources |-> <<>>,
              current_step |-> "data_collection",
              messages |-> <<"Warning: No data found for the given query.">>]
        ELSE [raw_data |-> all_raw_data, data_sources |-> all_sources,
              current_step |-> "data_collection",
              messages |-> <<"Collected data">>]

data_collector_update(nq, responses) ==
    LET results == Flatten([i \in 1..searched_queries(nq, responses) |->
                               search_web(responses[i])])
        all_raw_data == CollectedContents(results)
        all_sources == CollectedUrls(results)
        company_name == user_input[1]
        relevant_chunks == MentionCount(all_raw_data, company_name)
        relevance_pct == IF all_raw_data # <<>>
                         THEN (relevant_chunks * 100) \div Len(all_raw_data) ELSE 0
        counts == ToString(relevant_chunks) \o "/" \o ToString(Len(all_raw_data))
        quality_note == IF relevance_pct < 20
                        THEN "Low relevance: only " \o counts \o " chunks mention company"
                        ELSE "Good relevance: " \o counts \o " chunks mention company"
    IN  IF nq = 0
        THEN [raw_data |-> <<>>, data_sources |-> <<>>,
              current_step |-> "data_collection",
              messages |-> <<"Error: Could not generate search queries.">>]
        ELSE IF all_raw_data = <<>>
        THEN [raw_data |-> <<>>, data_sources |-> <<>>,
              current_step |-> "data_collection",
              messages |-> <<"Warning: No data found for the given query.">>]
        ELSE [raw_data |-> all_raw_data, data_sources |-> all_sources,
              current_step |-> "data_collection",
              messages |-> << "Generated " \o ToString(nq) \o " search queries",
                              quality_note,
                              "Collected " \o ToString(Len(all_raw_data))
                                \o " data chunks from " \o ToString(Len(all_sources))
                                \o " sources" >>]

\* the LLM answers with nq non-empty lines; each query gets a search response
data_collector_agent ==
    /\ pc = "data_collector"
    /\ \E nq \in 0..MaxQueries : \E responses \in [1..nq -> SearchResponses] :
          IF nq > 0 /\ user_input = <<>>
          THEN RaiseCalling("data_collector", "IndexError",     \* query.split()[0]
                            data_collector_calls(nq, responses))
          ELSE ReturnCalling("data_collector", data_collector_update(nq, responses),
                             "analyst", data_collector_calls(nq, responses))

\* llm.invoke raises inside a node that calls the LLM
LLMFails(node) ==
    /\ pc = node
    /\ RaiseCalling(node, "LLMError", LLMCall)

----------------------------------------------------------------------------
(* Analyst *)

\* what json.loads makes of the LLM's answer once the code fence is stripped:
\* a JSONDecodeError, a JSON value that is no object, or an object
GoodAnalysis ==
    [kind |-> "object",
     fields |-> [revenue |-> {}, profit |-> {}, growth_rate |-> {},
                 key_insights |-> << "Revenue grew 19% on record vehicle deliveries",
                                     "Operating margin improved on lower unit costs",
                                     "Free cash flow covers the planned capital spend" >>,
                 trends |-> << "Production capacity is expanding",
                               "Share price rose year over year",
                               "Energy storage deployments doubled" >>]]

\* an answer without profit and growth_rate, with two short insights
WeakAnalysis ==
    [kind |-> "object",
     fields |-> [revenue |-> {"estimated"},
                 key_insights |-> << "Revenue grew", "Margins fell" >>,
                 trends |-> << "Capacity expanding", "Share price up" >>]]

AnalystResponses ==
    { [kind |-> "invalid"], [kind |-> "non_object"], GoodAnalysis, WeakAnalysis }

\* dict.get(key, default)
Get(dict, key, default) == IF Has(dict, key) THEN dict[key] ELSE default

\* the Analyst's own count: 'unknown' or 'not available' in str(v).lower()
analyst_vague_metrics(metrics) ==
    Cardinality({k \in DOMAIN metrics : metrics[k] \cap {"unknown", "not available"} # {}})

analyst_success_update(data) ==
    LET metrics == [revenue |-> Get(data, "revenue", {"unknown"}),
                    profit |-> Get(data, "profit", {"unknown"}),
                    growth_rate |-> Get(data, "growth_rate", {"unknown"})]
        new_insights == Get(data, "key_insights", <<>>)
        new_trends == Get(data, "trends", <<>>)
        vague_metrics == analyst_vague_metrics(metrics)
        quality_status == IF vague_metrics >= 2 THEN "WARNING: Limited data quality"
                          ELSE "Good data quality"
    IN  [key_metrics |-> metrics,
         insights |-> new_insights,
         trends |-> new_trends,
         current_step |-> "analysis",
         messages |-> << "Analysis completed. Extracted " \o ToString(Len(new_insights))
                           \o " insights and " \o ToString(Len(new_trends)) \o " trends",
                         quality_status \o " - " \o ToString(3 - vague_metrics)
                           \o "/3 metrics found, " \o ToString(vague_metrics)
                           \o " unknown" >>]

\* the return on no raw data with no insight in it
analyst_no_data_update_no_insight ==
    [key_metrics |-> EmptyDict,
     insights |-> <<>>,
     trends |-> <<>>,
     current_step |-> "analysis",
     messages |-> <<"Warning: No raw data to analyze">>]

\* if not raw_data: return before the LLM is called
analyst_no_data_update ==
    [key_metrics |-> EmptyDict,
     insights |-> <<"No data available for analysis">>,
     trends |-> <<>>,
     current_step |-> "analysis",
     messages |-> <<"Warning: No raw data to analyze">>]

\* except json.JSONDecodeError
analyst_parse_error_update ==
    [key_metrics |-> EmptyDict,
     insights |-> <<"Error: Could not parse analysis results">>,
     trends |-> <<>>,
     current_step |-> "analysis",
     messages |-> <<"Error: Failed to analyze data properly">>]

analyst_agent ==
    /\ pc = "analyst"
    /\ IF raw_data = <<>>
       THEN Return("analyst", analyst_no_data_update, "check_analysis_quality")
       ELSE \E response \in AnalystResponses :
              CASE response.kind = "invalid" ->
                     ReturnCalling("analyst", analyst_parse_error_update,
                                   "check_analysis_quality", LLMCall)
                [] response.kind = "non_object" ->
                     RaiseCalling("analyst", "AttributeError",     \* analysis_data.get
                                  LLMCall)
                [] OTHER ->
                     ReturnCalling("analyst", analyst_success_update(response.fields),
                                   "check_analysis_quality", LLMCall)

\* the Analyst calls the LLM only when there is raw data
analyst_llm_fails == raw_data # <<>> /\ LLMFails("analyst")

----------------------------------------------------------------------------
(* Analysis Quality Gate *)

\* sum(1 for insight in insights if len(insight) < 30)
GenericCount(the_insights) ==
    Cardinality({i \in DOMAIN the_insights : Len(the_insights[i]) < 30})

vague_keywords ==
    {"unknown", "not available", "not disclosed", "estimated", "not found", "no data"}

\* the checks without the relevance check on the company's first token
analysis_issues_no_relevance(metrics, the_insights, the_trends, the_raw_data, words) ==
    (IF Cardinality({k \in DOMAIN metrics : metrics[k] \cap vague_keywords # {}}) >= 2
     THEN <<"Too many vague/unknown metrics">> ELSE <<>>)
    \o (IF Len(the_insights) < 3 THEN <<"Insufficient insights">> ELSE <<>>)
    \o (IF 2 * GenericCount(the_insights) > Len(the_insights)
        THEN <<"Insights too generic/short">> ELSE <<>>)
    \o (IF Len(the_trends) < 3 THEN <<"Insufficient trends">> ELSE <<>>)
    \o (IF Len(the_raw_data) < 5 THEN <<"Insufficient raw data">> ELSE <<>>)
    \o (IF SumOf([i \in DOMAIN the_raw_data |-> the_raw_data[i].len]) < 2000
        THEN <<"Raw data too short">> ELSE <<>>)

\* the checks with the last token of the input for the company
analysis_issues_last_token(metrics, the_insights, the_trends, the_raw_data, words) ==
    analysis_issues_no_relevance(metrics, the_insights, the_trends, the_raw_data, words)
    \o (IF MentionCount(the_raw_data, words[Len(words)]) < 2
        THEN <<"Company barely mentioned in data">> ELSE <<>>)

analysis_issues(metrics, the_insights, the_trends, the_raw_data, words) ==
    LET vague_metrics ==
            Cardinality({k \in DOMAIN metrics : metrics[k] \cap vague_keywords # {}})
        generic_insights == GenericCount(the_insights)
        total_chars == SumOf([i \in DOMAIN the_raw_data |-> the_raw_data[i].len])
        company_name == words[1]
        company_mentions == MentionCount(the_raw_data, company_name)
    IN  (IF vague_metrics >= 2 THEN <<"Too many vague/unknown metrics">> ELSE <<>>)
        \o (IF Len(the_insights) < 3 THEN <<"Insufficient insights">> ELSE <<>>)
        \o (IF 2 * generic_insights > Len(the_insights)
            THEN <<"Insights too generic/short">> ELSE <<>>)
        \o (IF Len(the_trends) < 3 THEN <<"Insufficient trends">> ELSE <<>>)
        \o (IF Len(the_raw_data) < 5 THEN <<"Insufficient raw data">> ELSE <<>>)
        \o (IF total_chars < 2000 THEN <<"Raw data too short">> ELSE <<>>)
        \o (IF company_mentions < 2 THEN <<"Company barely mentioned in data">> ELSE <<>>)

\* the gate with the ceiling off by one: a third retry is allowed
analysis_decision_third_retry(issues, attempts) ==
    IF issues # <<>> /\ attempts < 3 THEN "collect_more_data"
    ELSE IF issues # <<>> /\ attempts >= 3 THEN "insufficient_data"
    ELSE "proceed_to_writer"

analysis_decision(issues, attempts) ==
    IF issues # <<>> /\ attempts < 2 THEN "collect_more_data"
    ELSE IF issues # <<>> /\ attempts >= 2 THEN "insufficient_data"
    ELSE "proceed_to_writer"

\* the edges with the abandonment outcome wired back to the retry handler
analysis_edges_no_exit ==
    [proceed_to_writer |-> "writer",
     collect_more_data |-> "retry_data_collection",
     insufficient_data |-> "retry_data_collection"]

\* add_conditional_edges("analyst", check_analysis_quality, {...})
analysis_edges ==
    [proceed_to_writer |-> "writer",
     collect_more_data |-> "retry_data_collection",
     insufficient_data |-> "insufficient_data_handler"]

\* a gate returns `outcome` and the conditional edge leads to `next`
Route(outcome, next) ==
    /\ decision' = outcome
    /\ pc' = next
    /\ UNCHANGED <<state, error, executed, returned, calls, suspended, service>>

\* a gate raises
GateRaise(exception) ==
    /\ pc' = "raised"
    /\ error' = exception
    /\ UNCHANGED <<state, executed, returned, decision, calls, suspended, service>>

check_analysis_quality ==
    /\ pc = "check_analysis_quality"
    /\ IF key_metrics = None THEN GateRaise("AttributeError")     \* None.items()
       ELSE IF user_input = <<>> THEN GateRaise("IndexError")     \* ''.split()[0]
       ELSE LET issues == analysis_issues(key_metrics, insights, trends, raw_data,
                                          user_input)
                outcome == analysis_decision(issues, data_collection_attempts)
            IN  Route(outcome, analysis_edges[outcome])

----------------------------------------------------------------------------
(* Retry handlers and the insufficient-data handler *)

enhanced_terms ==
    <<"financial", "report", "earnings", "revenue", "profit", "quarterly", "results",
      "2024", "2023">>

\* the rewrite putting the search terms in front of the query
RetriedInput_prepends(words, n) == Flatten(Replicate(n, enhanced_terms)) \o words

\* user_input after n passes of retry_data_collection:
\* f"{original_query} financial report earnings ... 2024 2023"
RetriedInput(words, n) == words \o Flatten(Replicate(n, enhanced_terms))

\* the handler looping back to the Analyst instead of the Data Collector
retry_data_collection_to_analyst ==
    /\ pc = "retry_data_collection"
    /\ LET attempts == data_collection_attempts + 1
       IN  Return("retry_data_collection",
                  [user_input |-> user_input \o enhanced_terms,
                   data_collection_attempts |-> attempts,
                   messages |-> << "Retrying data collection (attempt "
                                     \o ToString(attempts)
                                     \o ") with enhanced search terms" >>],
                  "analyst")

retry_data_collection ==
    /\ pc = "retry_data_collection"
    /\ LET attempts == data_collection_attempts + 1
       IN  Return("retry_data_collection",
                  [user_input |-> RetriedInput(user_input, 1),
                   data_collection_attempts |-> attempts,
                   messages |-> << "Retrying data collection (attempt "
                                     \o ToString(attempts)
                                     \o ") with enhanced search terms" >>],
                  "data_collector")

\* the handler counting on the wrong counter
retry_writing_wrong_counter ==
    /\ pc = "retry_writing"
    /\ Return("retry_writing",
              [data_collection_attempts |-> data_collection_attempts + 1,
               messages |-> <<"Retrying report generation">>],
              "writer")

\* the handler throwing the draft away
retry_writing_drops_report ==
    /\ pc = "retry_writing"
    /\ LET attempts == writing_attempts + 1
       IN  Return("retry_writing",
                  [writing_attempts |-> attempts,
                   final_report |-> EmptyReport,
                   messages |-> << "Retrying report generation (attempt "
                                     \o ToString(attempts)
                                     \o ") with focus on more detail and specifics" >>],
                  "writer")

retry_writing ==
    /\ pc = "retry_writing"
    /\ LET attempts == writing_attempts + 1
       IN  Return("retry_writing",
                  [writing_attempts |-> attempts,
                   messages |-> << "Retrying report generation (attempt "
                                     \o ToString(attempts)
                                     \o ") with focus on more detail and specifics" >>],
                  "writer")

\* the lower-cased first tokens a run's company can have
CompanyBases == {Lower(u[1]) : u \in (UserInputs \cup NameInputs) \ {<<>>}}

\* occurrences of `name` in the words of the lower-cased text
OccurrencesIn(words, name) ==
    Cardinality({i \in DOMAIN words : Lower(words[i]) = name})

\* occurrences of `name` followed by the word "inc"
IncOccurrencesIn(words, name) ==
    Cardinality({i \in DOMAIN words :
                   /\ Lower(words[i]) = name
                   /\ i + 1 \in DOMAIN words
                   /\ Lower(words[i + 1]) = "inc"})

\* the words of the disclaimer template that a company token can be: the
\* template says "financial" 4 times, "report" 3 times and "company" 10 times
disclaimer_words ==
    Replicate(4, "financial") \o Replicate(3, "report") \o Replicate(10, "company")

\* the disclaimer template: 1284 characters besides the two company tokens and
\* the attempt count, one trailing newline, none of the required sections
disclaimer_report(company, attempts) ==
    LET size == 1284 + 2 * Len(company) + Len(ToString(attempts))
        template_words == disclaimer_words \o <<company, company>>
    IN  [len |-> size,
         strip |-> size - 1,
         sections |-> {},
         vague |-> 0,
         base |-> [n \in CompanyBases |-> OccurrencesIn(template_words, n)],
         poss |-> [n \in CompanyBases |-> 0],
         inc |-> [n \in CompanyBases |-> 0],
         numbers |-> 0,
         phrases |-> {"Insufficient Data Available"},
         company |-> <<company>>]

\* the handler wired to the Writer instead of END
handle_insufficient_data_continues ==
    /\ pc = "insufficient_data_handler"
    /\ Return("insufficient_data_handler",
              [final_report |-> disclaimer_report(user_input[1], data_collection_attempts),
               current_step |-> "early_exit",
               messages |-> <<"Insufficient data found.">>],
              "writer")

handle_insufficient_data ==
    /\ pc = "insufficient_data_handler"
    /\ IF user_input = <<>>
       THEN Raise("insufficient_data_handler", "IndexError")     \* company.split()[0]
       ELSE LET attempts == data_collection_attempts
            IN  Return("insufficient_data_handler",
                       [final_report |-> disclaimer_report(user_input[1], attempts),
                        current_step |-> "early_exit",
                        messages |-> << "Insufficient data found after "
                                          \o ToString(attempts)
                                          \o " attempts. Created disclaimer report." >>],
                       "END")

----------------------------------------------------------------------------
(* Writer *)

required_sections ==
    {"Executive Summary", "Company Overview", "Financial Performance",
     "Market Position", "Key Insights", "Conclusion"}

\* a long text in blank lines with every section, 3 vague terms, the company
\* named often and 8 figures
FullReport ==
    [len |-> 3884, strip |-> 3880, sections |-> required_sections, vague |-> 3,
     base |-> [n \in CompanyBases |-> IF n = "acme" THEN 11 ELSE 0],
     poss |-> [n \in CompanyBases |-> IF n = "acme" THEN 1 ELSE 0],
     inc |-> [n \in CompanyBases |-> IF n = "acme" THEN 1 ELSE 0],
     numbers |-> 8, phrases |-> {}, company |-> <<>>]

\* a short report padded with blank lines, two sections, many vague terms
ThinReport ==
    [len |-> 1200, strip |-> 1190,
     sections |-> {"Executive Summary", "Conclusion"}, vague |-> 7,
     base |-> [n \in CompanyBases |-> IF n = "acme" THEN 3 ELSE 0],
     poss |-> [n \in CompanyBases |-> 0],
     inc |-> [n \in CompanyBases |-> 0],
     numbers |-> 2, phrases |-> {}, company |-> <<>>]

\* the texts the LLM answers the Writer and the Editor with
LLMReports == {FullReport, ThinReport}

\* if not metrics or not insights
writer_missing_analysis == key_metrics \in {None, EmptyDict} \/ insights = <<>>

writer_agent ==
    /\ pc = "writer"
    /\ IF writer_missing_analysis
       THEN Return("writer",
                   [final_report |-> EmptyReport,
                    current_step |-> "writing",
                    messages |-> <<"Error: Missing analysis data for report generation">>],
                   "editor")
       ELSE \E report \in LLMReports :
              ReturnCalling("writer",
                            [final_report |-> report,
                             current_step |-> "writing",
                             messages |-> <<"Report written successfully">>],
                            "editor", LLMCall)

\* the Writer calls the LLM only when it has metrics and insights
writer_llm_fails == ~writer_missing_analysis /\ LLMFails("writer")

----------------------------------------------------------------------------
(* Editor *)

search_terms ==
    {"financial", "report", "earnings", "revenue", "profit", "quarterly", "results"}

\* the loop comparing the word itself, not word.lower()
RECURSIVE clean_company_parts_case_sensitive(_)
clean_company_parts_case_sensitive(words) ==
    IF words = <<>> \/ Head(words) \in search_terms THEN <<>>
    ELSE <<Head(words)>> \o clean_company_parts_case_sensitive(Tail(words))

\* the words before the first search term
RECURSIVE clean_company_parts(_)
clean_company_parts(words) ==
    IF words = <<>> \/ Lower(Head(words)) \in search_terms THEN <<>>
    ELSE <<Head(words)>> \o clean_company_parts(Tail(words))

\* the extraction looping over words[1:]
editor_company_name_from_second(words) ==
    LET rest == Tail(words)
        noise == {i \in DOMAIN rest : Lower(rest[i]) \in search_terms}
        stop == IF noise = {} THEN Len(rest) + 1
                ELSE CHOOSE i \in noise : \A j \in noise : i <= j
    IN  IF stop > 1 THEN SubSeq(rest, 1, stop - 1) ELSE <<words[1]>>

\* company_name of editor_agent, as its words
editor_company_name(words) ==
    IF clean_company_parts(words) # <<>> THEN clean_company_parts(words)
    ELSE <<words[1]>>

\* the metadata banner without the company name: 111 characters, of which two
\* leading and two trailing newlines
metadata_len == 111

metadata_words(company_name) ==
    <<"financial", "analysis", "report", "company">> \o company_name
        \o <<"generated", "analysis", "period", "2024">>

\* the Editor returning the LLM's text without the banner
formatted_report_without_banner(company_name, content) == content

\* metadata + response.content.strip()
formatted_report(company_name, content) ==
    LET banner == metadata_len + JoinLen(company_name)
        words == metadata_words(company_name)
    IN  [len |-> banner + content.strip,
         strip |-> IF content.strip = 0 THEN banner - 4 ELSE banner - 2 + content.strip,
         sections |-> content.sections,
         vague |-> content.vague,
         base |-> [n \in CompanyBases |-> content.base[n] + OccurrencesIn(words, n)],
         poss |-> content.poss,
         inc |-> [n \in CompanyBases |-> content.inc[n] + IncOccurrencesIn(words, n)],
         numbers |-> content.numbers,
         phrases |-> content.phrases,
         company |-> company_name]

editor_agent ==
    /\ pc = "editor"
    /\ IF user_input = <<>>
       THEN Raise("editor", "IndexError")                        \* words[0]
       ELSE \E content \in LLMReports :
              ReturnCalling("editor",
                            [final_report |->
                                 formatted_report(editor_company_name(user_input),
                                                  content),
                             messages |-> <<"Edited report is ready!">>],
                            "check_report_quality", LLMCall)

\* the Editor calls the LLM once its company name is extracted
editor_llm_fails == user_input # <<>> /\ LLMFails("editor")

----------------------------------------------------------------------------
(* Report Quality Gate *)

\* the gate taking the last word of the input for the company
gate_company_name_last_word(words) == <<words[Len(words)]>>

\* company_name of check_report_quality, as its words
gate_company_name(words) ==
    IF clean_company_parts(words) # <<>> THEN clean_company_parts(words)
    ELSE <<words[1]>>

MIN_LENGTH == 3000

report_issues(report, words) ==
    LET company_base == Lower(gate_company_name(words)[1])
        missing_sections == required_sections \ report.sections
        counted == IF company_base \in DOMAIN report.base
                   THEN report.base[company_base] + report.poss[company_base]
                          + report.inc[company_base]
                   ELSE 0
        company_mentions == Max(0, counted - 2)
    IN  (IF report.len < MIN_LENGTH THEN <<"Report too short">> ELSE <<>>)
        \o (IF missing_sections # {} THEN <<"Missing sections">> ELSE <<>>)
        \o (IF report.vague > 5 THEN <<"Too many vague terms">> ELSE <<>>)
        \o (IF company_mentions < 10 THEN <<"Company barely discussed">> ELSE <<>>)
        \o (IF report.numbers < 5 THEN <<"Lacks specific data points">> ELSE <<>>)
        \o (IF report.strip < 500 THEN <<"Report is essentially empty">> ELSE <<>>)

\* the gate that finalizes whatever it finds
report_decision_never_revises(issues, attempts) == "finalize"

\* the gate allowing a single revision only
report_decision_single_retry(issues, attempts) ==
    IF issues # <<>> /\ attempts < 1 THEN "revise_report"
    ELSE "finalize"

report_decision(issues, attempts) ==
    IF issues # <<>> /\ attempts < 2 THEN "revise_report"
    ELSE IF issues # <<>> /\ attempts >= 2 THEN "finalize"
    ELSE "finalize"

\* the edges with a revision sent back to data collection
report_edges_recollect == [finalize |-> "END", revise_report |-> "retry_data_collection"]

\* add_conditional_edges("editor", check_report_quality, {...})
report_edges == [finalize |-> "END", revise_report |-> "retry_writing"]

check_report_quality ==
    /\ pc = "check_report_quality"
    /\ IF user_input = <<>> THEN GateRaise("IndexError")           \* words[0]
       ELSE LET issues == report_issues(final_report, user_input)
                outcome == report_decision(issues, writing_attempts)
            IN  Route(outcome, report_edges[outcome])

----------------------------------------------------------------------------
(* The workflow *)

Next ==
    \/ data_collector_agent
    \/ LLMFails("data_collector")
    \/ analyst_agent
    \/ analyst_llm_fails
    \/ check_analysis_quality
    \/ retry_data_collection
    \/ handle_insufficient_data
    \/ writer_agent
    \/ writer_llm_fails
    \/ editor_agent
    \/ editor_llm_fails
    \/ check_report_quality
    \/ retry_writing

Spec == Init /\ [][Next]_vars

\* every suspension point returns and the driver keeps running the next node
FairSpec == Spec /\ WF_vars(Next)

----------------------------------------------------------------------------
(* The company-name extraction and the two gates, applied on their own *)

\* the raw data the Data Collector can have gathered
CollectableRawData ==
    {CollectedContents(Flatten([i \in 1..MaxQueries |-> search_web(responses[i])])) :
        responses \in [1..MaxQueries -> SearchResponses]}

\* the updates the Analyst can have returned on the raw data
AnalystUpdates(the_raw_data) ==
    IF the_raw_data = <<>> THEN {analyst_no_data_update}
    ELSE {analyst_parse_error_update,
          analyst_success_update(GoodAnalysis.fields),
          analyst_success_update(WeakAnalysis.fields)}

\* the inputs of the extraction: a user input as it came in
ExtractionInit ==
    /\ pc = "editor_company_name"
    /\ user_input \in NameInputs
    /\ raw_data = <<>>
    /\ key_metrics = None
    /\ insights = <<>>
    /\ trends = <<>>
    /\ final_report = EmptyReport
    /\ current_step = ""
    /\ data_collection_attempts = 0
    /\ writing_attempts = 0

\* the inputs of check_analysis_quality: the state an Analyst execution leaves
AnalysisGateInit ==
    /\ pc = "check_analysis_quality"
    /\ data_collection_attempts \in 0..2
    /\ \E words \in NameInputs :
          user_input = RetriedInput(words, data_collection_attempts)
    /\ raw_data \in CollectableRawData
    /\ \E update \in AnalystUpdates(raw_data) :
          /\ key_metrics = update.key_metrics
          /\ insights = update.insights
          /\ trends = update.trends
    /\ final_report = EmptyReport
    /\ current_step = "analysis"
    /\ writing_attempts = 0

\* the inputs of check_report_quality: the state an Editor execution leaves
ReportGateInit ==
    /\ pc = "check_report_quality"
    /\ data_collection_attempts \in 0..1
    /\ \E words \in NameInputs :
          user_input = RetriedInput(words, data_collection_attempts)
    /\ raw_data = <<>>
    /\ key_metrics = analyst_success_update(GoodAnalysis.fields).key_metrics
    /\ insights = GoodAnalysis.fields.key_insights
    /\ trends = GoodAnalysis.fields.trends
    /\ \E content \in LLMReports :
          final_report = formatted_report(editor_company_name(user_input), content)
    /\ current_step = "writing"
    /\ writing_attempts \in 0..2

UnitInit ==
    /\ ExtractionInit \/ AnalysisGateInit \/ ReportGateInit
    /\ data_sources = <<>>
    /\ messages = <<>>
    /\ error = "none"
    /\ executed = [n \in Nodes |-> 0]
    /\ returned = EmptyDict
    /\ decision = "none"
    /\ calls = NoCalls
    /\ suspended = NoRun
    /\ config = NoKeys
    /\ NoRequests
    /\ report_status = "none"

\* the first step of editor_agent: the clean company name of the user input
extract_company_name ==
    /\ pc = "editor_company_name"
    /\ returned' = [company_name |-> editor_company_name(user_input)]
    /\ pc' = "extracted"
    /\ UNCHANGED <<state, error, executed, decision, calls, suspended, service>>

UnitNext ==
    \/ extract_company_name
    \/ check_analysis_quality
    \/ check_report_quality

UnitSpec == UnitInit /\ [][UnitNext]_vars

----------------------------------------------------------------------------
(* Two runs at once: each invoke() has a state of its own, and the threads  *)
(* of the two runs take their steps in any order                            *)

\* everything of the run that is stepping
RunRecord ==
    [user_input |-> user_input, raw_data |-> raw_data, data_sources |-> data_sources,
     key_metrics |-> key_metrics, insights |-> insights, trends |-> trends,
     final_report |-> final_report, current_step |-> current_step,
     messages |-> messages, data_collection_attempts |-> data_collection_attempts,
     writing_attempts |-> writing_attempts, pc |-> pc, error |-> error,
     executed |-> executed, returned |-> returned, decision |-> decision,
     calls |-> calls, config |-> config]

\* a second workflow.invoke() with an initial state of its own
InitialRun(words) ==
    [user_input |-> words, raw_data |-> <<>>, data_sources |-> <<>>,
     key_metrics |-> None, insights |-> <<>>, trends |-> <<>>,
     final_report |-> EmptyReport, current_step |-> "",
     messages |-> <<>>, data_collection_attempts |-> 0,
     writing_attempts |-> 0, pc |-> "data_collector", error |-> "none",
     executed |-> [n \in Nodes |-> 0], returned |-> EmptyDict, decision |-> "none",
     calls |-> NoCalls, config |-> UserKeys]

ConcurrentInit ==
    /\ RunInit
    /\ \E words \in UserInputs : suspended = InitialRun(words)
    /\ config = UserKeys
    /\ NoRequests
    /\ report_status = "none"

\* the scheduler lets the other run step next
switch_run ==
    /\ suspended # NoRun
    /\ suspended' = RunRecord
    /\ user_input' = suspended.user_input
    /\ raw_data' = suspended.raw_data
    /\ data_sources' = suspended.data_sources
    /\ key_metrics' = suspended.key_metrics
    /\ insights' = suspended.insights
    /\ trends' = suspended.trends
    /\ final_report' = suspended.final_report
    /\ current_step' = suspended.current_step
    /\ messages' = suspended.messages
    /\ data_collection_attempts' = suspended.data_collection_attempts
    /\ writing_attempts' = suspended.writing_attempts
    /\ pc' = suspended.pc
    /\ error' = suspended.error
    /\ executed' = suspended.executed
    /\ returned' = suspended.returned
    /\ decision' = suspended.decision
    /\ calls' = suspended.calls
    /\ config' = suspended.config
    /\ UNCHANGED <<rate_limit_store, clock, admitted, last_response, report_status>>

\* the answers the two runs get: every query generation yields one query, its
\* search finds results that name the company, and the Analyst's LLM answers
\* with a JSON value
ConcurrentAnswers ==
    /\ pc = "data_collector" =>
          \/ error' = "LLMError"
          \/ /\ calls'.queries = 1
             /\ calls'.failed = 0
             /\ pc' = "analyst" =>
                   returned'.raw_data = Replicate(ResultsPerQuery, RelevantResult.content)
    /\ pc = "analyst" /\ pc' = "check_analysis_quality" =>
          returned'.key_metrics # EmptyDict

ConcurrentNext ==
    \/ Next /\ ConcurrentAnswers
    \/ switch_run

ConcurrentSpec == ConcurrentInit /\ [][ConcurrentNext]_vars

----------------------------------------------------------------------------
(* The background task of POST /reports/generate: a run of a workflow       *)
(* created with the user's keys, then the status of the report row          *)

\* the route has added the row with status "pending" and queued the task
BackgroundInit ==
    /\ RunInit
    /\ suspended = NoRun
    /\ config = UserKeys
    /\ NoRequests
    /\ report_status = "pending"

\* the task that calls every finished run a success
finish_background_task_always_success ==
    /\ pc \in {"END", "raised"}
    /\ report_status = "pending"
    /\ report_status' = "success"
    /\ UNCHANGED <<state, pc, error, executed, returned, decision, calls, suspended,
                   config, rate_limit_store, clock, admitted, last_response>>

\* process_report_background once workflow.invoke has returned or raised
finish_background_task ==
    /\ pc \in {"END", "raised"}
    /\ report_status = "pending"
    /\ report_status' = IF pc = "END" /\ final_report.len > 0 THEN "success"
                        ELSE "failed"
    /\ UNCHANGED <<state, pc, error, executed, returned, decision, calls, suspended,
                   config, rate_limit_store, clock, admitted, last_response>>

BackgroundNext ==
    \/ Next /\ ConcurrentAnswers
    \/ finish_background_task

BackgroundSpec == BackgroundInit /\ [][BackgroundNext]_vars

----------------------------------------------------------------------------
(* The rate limiter: rate_limit_middleware on requests of several clients,  *)
(* with a clock that ticks twice a minute                                    *)

MaxClock == 2

\* timedelta(minutes=1), in ticks
RateWindow == 2

\* the limit of the check
RateLimit == 10

Paths == {"/reports/generate", "/reports/stats"}

Methods == {"POST", "GET"}

\* [req_time for req_time in times if req_time > one_minute_ago]
recent_requests(times, now) ==
    LET one_minute_ago == now - RateWindow
        kept(req_time) == req_time > one_minute_ago
    IN  SelectSeq(times, kept)

\* a check that lets the request after the tenth through
rate_limited_above_limit(times) == Len(times) > RateLimit

\* len(rate_limit_store[client_ip]) >= 10
rate_limited(times) == Len(times) >= RateLimit

\* one request through the middleware; call_next answers 200
rate_limit_middleware ==
    \E client_ip \in ClientIPs, path \in Paths, method \in Methods :
        LET limited_route == path = "/reports/generate" /\ method = "POST"
            cleaned == recent_requests(rate_limit_store[client_ip], clock)
            rejected == limited_route /\ rate_limited(cleaned)
        IN  /\ rate_limit_store' =
                   IF ~limited_route THEN rate_limit_store
                   ELSE [rate_limit_store EXCEPT ![client_ip] =
                            IF rejected THEN cleaned ELSE Append(cleaned, clock)]
            /\ admitted' =
                   IF limited_route /\ ~rejected
                   THEN [admitted EXCEPT ![client_ip] = Append(@, clock)]
                   ELSE admitted
            /\ last_response' = [ip |-> client_ip, path |-> path, method |-> method,
                                 status |-> IF rejected THEN 429 ELSE 200]
            /\ UNCHANGED <<state, pc, error, executed, returned, decision, calls,
                           suspended, config, clock, report_status>>

\* the admissions among `times` that are less than a minute old at `now`
last_minute(times, now) ==
    LET young(t) == now - t < RateWindow
    IN  SelectSeq(times, young)

\* half a minute passes; the store is left as it is until the next request
tick ==
    /\ clock < MaxClock
    /\ clock' = clock + 1
    /\ admitted' = [ip \in ClientIPs |-> last_minute(admitted[ip], clock + 1)]
    /\ UNCHANGED <<state, pc, error, executed, returned, decision, calls, suspended,
                   config, rate_limit_store, last_response, report_status>>

RateLimitInit ==
    /\ RunInit
    /\ user_input = <<"Acme", "Corp">>
    /\ suspended = NoRun
    /\ config = NoKeys
    /\ NoRequests
    /\ report_status = "none"

RateLimitNext ==
    \/ rate_limit_middleware
    \/ tick

RateLimitSpec == RateLimitInit /\ [][RateLimitNext]_vars

----------------------------------------------------------------------------
(* Where a run stands *)

\* the Analysis Quality Gate was the last thing to run and returned `decision`
AnalysisGateJustRan ==
    \/ pc = "retry_data_collection" /\ decision = "collect_more_data"
    \/ pc = "insufficient_data_handler" /\ decision = "insufficient_data"
    \/ pc = "writer" /\ decision = "proceed_to_writer"

\* the Report Quality Gate was the last thing to run and returned `decision`
ReportGateJustRan ==
    \/ pc = "retry_writing" /\ decision = "revise_report"
    \/ pc = "END" /\ decision = "finalize"

\* the Analyst was the last node to run and returned normally
AnalystJustRan == pc = "check_analysis_quality" \/ AnalysisGateJustRan

----------------------------------------------------------------------------
(* C1 *)

\* C1: both retry counters stay within 0..2 in every reachable state, and no
\* step of a run lowers either of them.
C1_CountersBoundedMonotone ==
    /\ [](data_collection_attempts \in 0..2 /\ writing_attempts \in 0..2)
    /\ [][/\ data_collection_attempts' >= data_collection_attempts
          /\ writing_attempts' >= writing_attempts]_vars

\* a run that has used both retry budgets
C1_Witness == data_collection_attempts = 2 /\ writing_attempts = 2

----------------------------------------------------------------------------
(* C2 *)

\* C2: the retry_data_collection edge is taken at most twice in a run, the
\* counter counts those traversals, a retry is only routed to below 2, and a
\* failing evaluation of the Analysis Quality Gate at 2 routes to the
\* insufficient-data handler.
C2_AtMostTwoCollectionRetries ==
    /\ executed["retry_data_collection"] <= 2
    /\ data_collection_attempts = executed["retry_data_collection"]
    /\ (pc = "retry_data_collection" => data_collection_attempts < 2)
    /\ (/\ AnalysisGateJustRan
        /\ analysis_issues(key_metrics, insights, trends, raw_data, user_input) # <<>>
        /\ data_collection_attempts >= 2
        => pc = "insufficient_data_handler")

\* the gate fails after two retries and routes to the handler
C2_Witness ==
    /\ pc = "insufficient_data_handler"
    /\ executed["retry_data_collection"] = 2
    /\ executed["data_collector"] = 3

----------------------------------------------------------------------------
(* C3 *)

\* C3: after every Analyst execution key_metrics, insights and trends equal
\* exactly what that execution returned, with nothing left of earlier ones.
C3_AnalysisIsLatestOnly ==
    AnalystJustRan =>
        /\ key_metrics = returned.key_metrics
        /\ insights = returned.insights
        /\ trends = returned.trends

----------------------------------------------------------------------------
(* C4 *)

\* the Analyst's last execution ended in the parse-error or the no-data return
AnalystFailedLast ==
    /\ AnalystJustRan
    /\ returned \in {analyst_parse_error_update, analyst_no_data_update}

\* C4: an Analyst execution that cannot parse the answer, or has no raw data,
\* returns empty metrics and one error insight, and the Analysis Quality Gate
\* evaluated right after it never returns proceed_to_writer.
C4_FailedAnalysisNeverProceeds ==
    AnalystFailedLast =>
        /\ returned.key_metrics = EmptyDict
        /\ Len(returned.insights) = 1
        /\ decision # "proceed_to_writer"

----------------------------------------------------------------------------
(* C5 *)

\* C5: a run ends with an exception only when an LLM invocation failed; no
\* stage or gate raises otherwise, whatever the user input and the answers.
C5_OnlyLLMFailureRaises == pc = "raised" => error = "LLMError"

----------------------------------------------------------------------------
(* C6 *)

\* the seven checks of the Analysis Quality Gate, read off the state
VagueMetricCount ==
    Cardinality({k \in DOMAIN key_metrics : key_metrics[k] \cap vague_keywords # {}})

ShortInsightCount == Cardinality({i \in DOMAIN insights : Len(insights[i]) < 30})

RawDataChars == SumOf([i \in DOMAIN raw_data |-> raw_data[i].len])

FirstTokenChunkCount ==
    Cardinality({i \in DOMAIN raw_data : Lower(user_input[1]) \in raw_data[i].mentions})

AnalysisCheckFires ==
    \/ VagueMetricCount >= 2
    \/ Len(insights) < 3
    \/ 2 * ShortInsightCount > Len(insights)
    \/ Len(trends) < 3
    \/ Len(raw_data) < 5
    \/ RawDataChars < 2000
    \/ FirstTokenChunkCount < 2

\* C6: check_analysis_quality returns collect_more_data exactly when one of
\* the seven checks fires and data_collection_attempts < 2, insufficient_data
\* exactly when one fires and data_collection_attempts >= 2, and
\* proceed_to_writer exactly when none fires.
C6_AnalysisGateDecisionTable ==
    AnalysisGateJustRan =>
        /\ decision = "collect_more_data"
             <=> (AnalysisCheckFires /\ data_collection_attempts < 2)
        /\ decision = "insufficient_data"
             <=> (AnalysisCheckFires /\ data_collection_attempts >= 2)
        /\ decision = "proceed_to_writer" <=> ~AnalysisCheckFires

\* scenario A: 6 chunks of 3000 characters, 3 of them naming the company, and a
\* well-formed analysis pass the gate on the first attempt
C6_Witness ==
    /\ AnalysisGateJustRan
    /\ decision = "proceed_to_writer"
    /\ data_collection_attempts = 0
    /\ Len(raw_data) = 6
    /\ RawDataChars = 3000
    /\ FirstTokenChunkCount = 3
    /\ Len(insights) = 3
    /\ Len(trends) = 3
    /\ VagueMetricCount = 0

----------------------------------------------------------------------------
(* C7 *)

\* the company mentions the Report Quality Gate counts, less the 2 of the header
QualifyingMentions ==
    LET name == Lower(user_input[1])
    IN  Max(0, final_report.base[name] + final_report.poss[name]
                 + final_report.inc[name] - 2)

ReportCheckFires ==
    \/ final_report.len < 3000
    \/ required_sections \ final_report.sections # {}
    \/ final_report.vague > 5
    \/ QualifyingMentions < 10
    \/ final_report.numbers < 5
    \/ final_report.strip < 500

\* C7: check_report_quality returns revise_report exactly when one of the six
\* report checks fires and writing_attempts < 2, and finalize in every other
\* case.
C7_ReportGateDecisionTable ==
    ReportGateJustRan =>
        /\ decision = "revise_report" <=> (ReportCheckFires /\ writing_attempts < 2)
        /\ decision = "finalize" <=> ~(ReportCheckFires /\ writing_attempts < 2)

\* scenario D: 4000 characters, all sections, 3 vague terms, 12 qualifying
\* mentions and 8 figures are finalized without a revision
C7_Witness ==
    /\ ReportGateJustRan
    /\ decision = "finalize"
    /\ writing_attempts = 0
    /\ final_report.len = 4000
    /\ final_report.sections = required_sections
    /\ final_report.vague = 3
    /\ QualifyingMentions = 12
    /\ final_report.numbers = 8

----------------------------------------------------------------------------
(* C8 *)

\* C8: a step of retry_data_collection raises data_collection_attempts by 1
\* and leaves writing_attempts, a step of retry_writing raises
\* writing_attempts by 1 and leaves data_collection_attempts, and a step of
\* any other stage or gate leaves both.
C8_OnlyRetryHandlersCount ==
    [][/\ pc = "retry_data_collection" =>
             /\ data_collection_attempts' = data_collection_attempts + 1
             /\ writing_attempts' = writing_attempts
       /\ pc = "retry_writing" =>
             /\ writing_attempts' = writing_attempts + 1
             /\ data_collection_attempts' = data_collection_attempts
       /\ pc \notin {"retry_data_collection", "retry_writing"} =>
             UNCHANGED <<data_collection_attempts, writing_attempts>>]_vars

\* both retry handlers have run
C8_Witness ==
    /\ executed["retry_data_collection"] = 1
    /\ executed["retry_writing"] = 1
    /\ data_collection_attempts = 1
    /\ writing_attempts = 1

----------------------------------------------------------------------------
(* C9 *)

\* C9: once the insufficient-data handler has run the run is at END, neither
\* Writer nor Editor has run or will, current_step is the early-exit tag and
\* final_report holds the phrase "Insufficient Data Available".
C9_EarlyExitIsTerminal ==
    executed["insufficient_data_handler"] > 0 =>
        /\ pc = "END"
        /\ executed["insufficient_data_handler"] = 1
        /\ executed["writer"] = 0
        /\ executed["editor"] = 0
        /\ current_step = "early_exit"
        /\ "Insufficient Data Available" \in final_report.phrases

\* a run that ended through the handler after two retries
C9_Witness ==
    /\ executed["insufficient_data_handler"] = 1
    /\ pc = "END"
    /\ data_collection_attempts = 2

----------------------------------------------------------------------------
(* C10 *)

Stages == {"data_collector", "analyst", "writer", "editor"}

\* C10: a run in which every LLM call returns reaches END, and no stage runs
\* more than 3 times.
C10_RunTerminates ==
    /\ <>(pc = "END" \/ error = "LLMError")
    /\ [](\A n \in Stages : executed[n] <= 3)

----------------------------------------------------------------------------
(* C11 *)

\* s is a prefix of t
IsPrefix(s, t) == Len(s) <= Len(t) /\ SubSeq(t, 1, Len(s)) = s

\* C11: no step of a run shrinks raw_data or data_sources; after every step
\* each of them starts with its value before the step.
C11_RawDataOnlyGrows ==
    [][IsPrefix(raw_data, raw_data') /\ IsPrefix(data_sources, data_sources')]_vars

\* a Data Collector execution of a retry found nothing and the data gathered
\* before it is still there
C11_Witness ==
    /\ pc = "analyst"
    /\ executed["data_collector"] >= 2
    /\ returned.raw_data = <<>>
    /\ raw_data # <<>>
    /\ data_sources # <<>>

----------------------------------------------------------------------------
(* C12 *)

\* the Data Collector was the last node to run, returned, and had found
\* raw_data empty
CollectorRanOnEmptyRawData ==
    /\ pc = "analyst"
    /\ Len(raw_data) = Len(returned.raw_data)

\* C12 as stated: on empty raw_data the Data Collector makes no search call,
\* and the Analyst returns empty metrics, empty insights and empty trends
\* with a warning message.
C12_EmptyRawDataNoSearchNoInsight ==
    /\ CollectorRanOnEmptyRawData => calls.searches = 0
    /\ AnalystJustRan /\ raw_data = <<>> =>
          /\ returned.key_metrics = EmptyDict
          /\ returned.insights = <<>>
          /\ returned.trends = <<>>
          /\ returned.messages = <<"Warning: No raw data to analyze">>

\* C12: on empty raw_data the Analyst calls no LLM and returns empty metrics,
\* the single insight "No data available for analysis" and empty trends with
\* a warning message; the Data Collector searches once for every generated
\* query, whether raw_data is empty or not.
C12_EmptyRawDataAnalysis ==
    /\ pc = "analyst" => calls.searches = calls.queries
    /\ AnalystJustRan /\ raw_data = <<>> =>
          /\ calls.llm = 0
          /\ returned.key_metrics = EmptyDict
          /\ returned.insights = <<"No data available for analysis">>
          /\ returned.trends = <<>>
          /\ returned.messages = <<"Warning: No raw data to analyze">>

\* the Analyst has just returned on empty raw_data, after a Data Collector
\* execution that started from empty raw_data
C12_Witness ==
    /\ pc = "check_analysis_quality"
    /\ raw_data = <<>>
    /\ executed["data_collector"] = 1
    /\ executed["analyst"] = 1
    /\ insights = <<"No data available for analysis">>

----------------------------------------------------------------------------
(* C13 *)

\* C13: a Data Collector execution whose query generation yields no non-empty
\* line makes no search call and returns empty raw_data and data_sources
\* updates with the error message.
C13_NoQueriesNoSearch ==
    pc = "analyst" /\ calls.queries = 0 =>
        /\ calls.searches = 0
        /\ returned.raw_data = <<>>
        /\ returned.data_sources = <<>>
        /\ returned.messages = <<"Error: Could not generate search queries.">>

\* the query generation of a retry yields nothing
C13_Witness ==
    /\ pc = "analyst"
    /\ calls.llm = 1
    /\ calls.queries = 0
    /\ executed["data_collector"] = 2
    /\ raw_data # <<>>

----------------------------------------------------------------------------
(* C14 *)

\* C14: when a search of a Data Collector execution fails, every query of
\* the execution is still searched, the failed search adds no result, and the
\* run goes on to the Analyst.
C14_SearchFailureNeverAborts ==
    calls.failed > 0 =>
        /\ calls.searches = calls.queries
        /\ pc = "analyst"
        /\ error = "none"
        /\ Len(returned.raw_data) <= (calls.searches - calls.failed) * ResultsPerQuery

----------------------------------------------------------------------------
(* C15 *)

\* the positions of the noise words in the tokens
NoiseIndexes(words) == {i \in DOMAIN words : Lower(words[i]) \in search_terms}

\* the tokens before the first noise word; all of them when there is none
LeadingTokens(words) ==
    IF NoiseIndexes(words) = {} THEN words
    ELSE SubSeq(words, 1,
                (CHOOSE i \in NoiseIndexes(words) :
                    \A j \in NoiseIndexes(words) : i <= j) - 1)

\* C15 as stated: the clean company name is the tokens before the first noise
\* word, and the first token when no token is a noise word.
C15_NameFallsBackWithoutNoiseWord ==
    pc = "extracted" =>
        returned.company_name =
            IF NoiseIndexes(user_input) = {} THEN <<user_input[1]>>
            ELSE LeadingTokens(user_input)

\* C15: the clean company name is the tokens before the first noise word, all
\* tokens when no token is a noise word, and the first token when the first
\* token is itself a noise word; the Report Quality Gate extracts the same.
C15_CleanCompanyName ==
    pc = "extracted" =>
        /\ returned.company_name =
               IF LeadingTokens(user_input) = <<>> THEN <<user_input[1]>>
               ELSE LeadingTokens(user_input)
        /\ gate_company_name(user_input) = returned.company_name

\* a user input of several tokens without a noise word is its own clean name
C15_Witness ==
    /\ pc = "extracted"
    /\ NoiseIndexes(user_input) = {}
    /\ Len(user_input) >= 2
    /\ returned.company_name = user_input

----------------------------------------------------------------------------
(* C16 *)

\* C16: two states the Editor can leave that agree on final_report and
\* writing_attempts get the same decision of the Report Quality Gate, whatever
\* their user_input.
C16_ReportDecisionOfReportAndAttempts ==
    ReportGateJustRan =>
        \A words \in NameInputs : \A n \in 0..2 : \A content \in LLMReports :
            formatted_report(editor_company_name(RetriedInput(words, n)), content)
                = final_report
            => report_decision(report_issues(final_report, RetriedInput(words, n)),
                               writing_attempts) = decision

\* the gate finalizes a report that the Editor leaves for another user_input
\* as well
C16_Witness ==
    /\ ReportGateJustRan
    /\ decision = "finalize"
    /\ writing_attempts = 0
    /\ \E words \in NameInputs : \E content \in LLMReports :
          /\ words # user_input
          /\ formatted_report(editor_company_name(RetriedInput(words, 1)), content)
               = final_report

----------------------------------------------------------------------------
(* C17 *)

\* the outcome of check_analysis_quality in the state that differs from this
\* one in user_input only
AnalysisOutcomeFor(words) ==
    analysis_decision(analysis_issues(key_metrics, insights, trends, raw_data, words),
                      data_collection_attempts)

\* C17 as stated: two states that agree on key_metrics, insights, trends,
\* raw_data and data_collection_attempts get the same outcome of the Analysis
\* Quality Gate, whatever their user_input.
C17_AnalysisOutcomeIgnoresUserInput ==
    AnalysisGateJustRan =>
        \A words \in NameInputs :
            AnalysisOutcomeFor(RetriedInput(words, data_collection_attempts)) = decision

\* C17: two states that agree on key_metrics, insights, trends, raw_data and
\* data_collection_attempts and on the lower-cased first token of user_input
\* get the same outcome of the Analysis Quality Gate.
C17_AnalysisOutcomeOfFieldsAndFirstToken ==
    AnalysisGateJustRan =>
        \A words \in NameInputs :
            Lower(words[1]) = Lower(user_input[1])
            => AnalysisOutcomeFor(RetriedInput(words, data_collection_attempts))
                 = decision

\* the gate lets an analysis pass that it sends back for another company
C17_Witness ==
    /\ AnalysisGateJustRan
    /\ decision = "proceed_to_writer"
    /\ \E words \in NameInputs :
          /\ Lower(words[1]) = Lower(user_input[1])
          /\ RetriedInput(words, data_collection_attempts) # user_input
    /\ \E words \in NameInputs :
          AnalysisOutcomeFor(RetriedInput(words, data_collection_attempts)) # decision

----------------------------------------------------------------------------
(* C18 *)

\* C18: once a stage has run, current_step is the tag of the stage that ran
\* last: not the Writer's after the Editor, not the Analyst's after
\* retry_data_collection, not the Writer's after retry_writing.
C18_CurrentStepIsLastStage ==
    /\ pc = "analyst" => current_step = "data_collection"
    /\ pc = "check_analysis_quality" => current_step = "analysis"
    /\ pc = "editor" => current_step = "writing"
    /\ pc = "check_report_quality" => current_step # "writing"
    /\ pc = "data_collector" /\ executed["retry_data_collection"] > 0 =>
          current_step # "analysis"
    /\ pc = "writer" /\ executed["retry_writing"] > 0 => current_step # "writing"

----------------------------------------------------------------------------
(* C19 *)

\* C19: with two runs in flight, every step is either a step of one run that
\* this run could take alone and that leaves the other run as it is, or a
\* switch between the runs that changes neither; so the retry counters of
\* each run count the retries of that run only.
C19_RunsAreIsolated ==
    /\ [][\/ Next /\ suspended' = suspended
          \/ suspended' = RunRecord /\ RunRecord' = suspended]_vars
    /\ [](/\ data_collection_attempts = executed["retry_data_collection"]
          /\ writing_attempts = executed["retry_writing"]
          /\ suspended = NoRun \/
               /\ suspended.data_collection_attempts
                    = suspended.executed["retry_data_collection"]
               /\ suspended.writing_attempts = suspended.executed["retry_writing"])

\* one run has ended through the insufficient-data handler after two retries
\* while the other has been finalized after two revisions
C19_Witness ==
    /\ pc = "END"
    /\ current_step = "early_exit"
    /\ data_collection_attempts = 2
    /\ writing_attempts = 0
    /\ suspended.pc = "END"
    /\ suspended.writing_attempts = 2
    /\ suspended.data_collection_attempts = 1
    /\ Len(suspended.raw_data) = 2 * ResultsPerQuery
    /\ Len(raw_data) = 3 * ResultsPerQuery

----------------------------------------------------------------------------
(* C20 *)

\* C20: extracting again from the same user_input gives the same clean name,
\* and extracting from the clean name gives the clean name.
C20_ExtractionIdempotent ==
    pc = "extracted" =>
        /\ editor_company_name(user_input) = returned.company_name
        /\ editor_company_name(returned.company_name) = returned.company_name

\* the extraction cut a noise word off a name of two tokens
C20_Witness ==
    /\ pc = "extracted"
    /\ Len(returned.company_name) = 2
    /\ Len(user_input) = 3

----------------------------------------------------------------------------
(* C21 *)

\* C21: every LLM call and every search call of a stage uses the key the
\* workflow was created with, and the server's key only when it was created
\* without one.
C21_CallsUseWorkflowKeys ==
    /\ calls.llm > 0 => calls.llm_key = key_or_default(config.groq_api_key)
    /\ calls.searches > 0 => calls.search_key = key_or_default(config.tavily_api_key)

----------------------------------------------------------------------------
(* C22 *)

\* the request of the step is a POST to /reports/generate
LimitedRequest(r) == r.path = "/reports/generate" /\ r.method = "POST"

\* C22: at every instant each client IP has at most 10 admitted
\* POST /reports/generate requests in the preceding minute; a request that
\* finds 10 of them is answered 429 and is not recorded, and no request is
\* answered 429 otherwise; a request to another path or with another method
\* changes no count, and a request changes the count of its own IP only.
C22_RateLimit ==
    /\ [](\A ip \in ClientIPs : Len(last_minute(admitted[ip], clock)) <= RateLimit)
    /\ [][clock' = clock =>
            LET r == last_response'
                before == Len(last_minute(admitted[r.ip], clock))
            IN  /\ r.status = 429 <=> LimitedRequest(r) /\ before >= RateLimit
                /\ r.status = 429 =>
                      /\ admitted' = admitted
                      /\ Len(rate_limit_store'[r.ip]) <= Len(rate_limit_store[r.ip])
                /\ LimitedRequest(r) /\ r.status # 429 =>
                      admitted'[r.ip] = Append(admitted[r.ip], clock)
                /\ ~LimitedRequest(r) =>
                      admitted' = admitted /\ rate_limit_store' = rate_limit_store
                /\ \A ip \in ClientIPs \ {r.ip} :
                      /\ admitted'[ip] = admitted[ip]
                      /\ rate_limit_store'[ip] = rate_limit_store[ip]
         ]_vars

\* a client is turned away with its tenth admission still young while the
\* other client, with fewer admissions, is not
C22_Witness ==
    /\ clock >= RateWindow
    /\ LimitedRequest(last_response)
    /\ last_response.status = 429
    /\ Len(admitted[last_response.ip]) = RateLimit
    /\ \E ip \in ClientIPs \ {last_response.ip} :
          Len(admitted[ip]) > 0 /\ Len(admitted[ip]) < RateLimit

----------------------------------------------------------------------------
(* C23 *)

\* node `node` executes in this step and returns
Returns(node) == executed'[node] # executed[node] /\ pc' # "raised"

\* C23: retry_data_collection is followed by the Data Collector, the Data
\* Collector by the Analyst, the Analyst by an evaluation of the Analysis
\* Quality Gate on the state it left; the Writer, entered from that gate or
\* from retry_writing, is followed by the Editor, the Editor by an evaluation
\* of the Report Quality Gate on the report it left, and a run past the
\* Writer ends only by that gate's finalize.
C23_StageOrder ==
    [][/\ Returns("retry_data_collection") => pc' = "data_collector"
       /\ Returns("data_collector") => pc' = "analyst"
       /\ Returns("analyst") => pc' = "check_analysis_quality"
       /\ Returns("retry_writing") => pc' = "writer"
       /\ Returns("writer") => pc' = "editor"
       /\ Returns("editor") => pc' = "check_report_quality"
       /\ pc' = "analyst" => Returns("data_collector")
       /\ pc' = "writer" =>
             \/ Returns("retry_writing")
             \/ pc = "check_analysis_quality" /\ decision' = "proceed_to_writer"
       /\ pc = "check_analysis_quality" /\ pc' # "raised" =>
             decision' = analysis_decision(
                             analysis_issues(key_metrics, insights, trends, raw_data,
                                             user_input),
                             data_collection_attempts)
       /\ pc = "check_report_quality" /\ pc' # "raised" =>
             decision' = report_decision(report_issues(final_report, user_input),
                                         writing_attempts)
       /\ pc' = "END" /\ executed["writer"] > 0 =>
             pc = "check_report_quality" /\ decision' = "finalize"
      ]_vars

\* a run that went through both retry loops and was finalized
C23_Witness ==
    /\ pc = "END"
    /\ decision = "finalize"
    /\ executed["retry_data_collection"] = 1
    /\ executed["retry_writing"] = 1
    /\ executed["writer"] = 2
    /\ executed["editor"] = 2

----------------------------------------------------------------------------
(* C24 *)

\* retry_writing executes in this step
RetryWritingRuns == executed'["retry_writing"] # executed["retry_writing"]

\* C24 as stated: retry_writing changes only writing_attempts, every other
\* field of the state, messages included, is left as it was.
C24_RetryWritingChangesOnlyCounter ==
    [][RetryWritingRuns =>
          UNCHANGED <<user_input, raw_data, data_sources, key_metrics, insights,
                      trends, final_report, current_step, messages,
                      data_collection_attempts>>]_vars

\* C24, amended: retry_writing adds one to writing_attempts and appends one
\* message to messages; every other field of the state is left as it was.
C24_RetryWritingFrame ==
    [][RetryWritingRuns =>
          /\ writing_attempts' = writing_attempts + 1
          /\ Len(messages') = Len(messages) + 1
          /\ IsPrefix(messages, messages')
          /\ UNCHANGED <<user_input, raw_data, data_sources, key_metrics, insights,
                         trends, final_report, current_step,
                         data_collection_attempts>>]_vars

\* retry_writing has just run for the first time and left its message
C24_Witness ==
    /\ pc = "writer"
    /\ decision = "revise_report"
    /\ writing_attempts = 1
    /\ final_report.len > 0
    /\ messages[Len(messages)] =
          "Retrying report generation (attempt 1) with focus on more detail and specifics"

----------------------------------------------------------------------------
(* C25 *)

\* the Data Collector has run once, generated queries, and its searches
\* brought no content for any of them
FirstPassWithoutContent ==
    /\ data_collection_attempts = 0
    /\ executed["data_collector"] = 1
    /\ calls.queries > 0
    /\ calls.chunks = 0

\* C25: on the first pass, when the searches bring no content for any query,
\* the Data Collector returns empty raw_data and hands over to the Analyst;
\* the Analyst then calls no LLM and yields the insight "No data available
\* for analysis", and the Analysis Quality Gate returns collect_more_data.
C25_NoContentFirstPass ==
    /\ FirstPassWithoutContent =>
          /\ pc = "analyst"
          /\ raw_data = <<>>
          /\ returned.raw_data = <<>>
    /\ data_collection_attempts = 0 /\ raw_data = <<>> /\ AnalystJustRan =>
          /\ calls.llm = 0
          /\ insights = <<"No data available for analysis">>
    /\ data_collection_attempts = 0 /\ raw_data = <<>> /\ AnalysisGateJustRan =>
          decision = "collect_more_data"

----------------------------------------------------------------------------
(* C26 *)

\* the run of the background task is over: invoke returned or raised
RunOver == pc \in {"END", "raised"}

\* C26: the report row starts as pending and stays pending while the run of
\* its background task goes on; when the task ends the status is success if
\* the workflow returned a non-empty final_report and failed if it raised or
\* returned an empty one; a status of success or failed never changes again.
C26_ReportStatusLifecycle ==
    /\ [](~RunOver => report_status = "pending")
    /\ [](report_status = "success" => pc = "END" /\ final_report.len > 0)
    /\ [](report_status = "failed" => pc = "raised" \/ final_report.len = 0)
    /\ [][(report_status = "pending" /\ report_status' # "pending") =>
             (/\ RunOver
              /\ report_status' = IF pc = "END" /\ final_report.len > 0
                                  THEN "success" ELSE "failed")]_vars
    /\ [][(report_status \in {"success", "failed"}) =>
             (report_status' = report_status)]_vars

\* the task of a finalized run has ended and set the status to success
C26_Witness ==
    /\ report_status = "success"
    /\ pc = "END"
    /\ decision = "finalize"
    /\ final_report.len > 0

----------------------------------------------------------------------------
(* C27 *)

\* C27: a run that ended through the insufficient-data handler has
\* data_collection_attempts = 2 and an analysis on which the Analysis Quality
\* Gate finds an issue; a run that ended by finalize has a report on which
\* the Report Quality Gate finds no issue, or writing_attempts = 2.
C27_TerminalStates ==
    pc = "END" =>
        /\ executed["insufficient_data_handler"] > 0 =>
              /\ decision = "insufficient_data"
              /\ data_collection_attempts = 2
              /\ AnalysisCheckFires
        /\ executed["insufficient_data_handler"] = 0 =>
              /\ decision = "finalize"
              /\ ~ReportCheckFires \/ writing_attempts = 2

\* a run finalized with a report that still has issues, its revisions used up
C27_Witness ==
    /\ pc = "END"
    /\ decision = "finalize"
    /\ ReportCheckFires
    /\ writing_attempts = 2
    /\ executed["writer"] = 3

----------------------------------------------------------------------------
(* C28 *)

\* the rewrites a claim about "any number" of them is checked for
MaxRewrites == 3

\* C28: the clean company name the Editor and the Report Quality Gate extract
\* from user_input after any number of retry_data_collection rewrites is the
\* one they extract from the original user_input, and the first token of
\* user_input is the same after every rewrite.
C28_RewritesKeepCompany ==
    pc = "extracted" =>
        \A n \in 0..MaxRewrites :
            /\ editor_company_name(RetriedInput(user_input, n)) = returned.company_name
            /\ gate_company_name(RetriedInput(user_input, n)) = returned.company_name
            /\ RetriedInput(user_input, n)[1] = user_input[1]

\* a name that is its first token because that token is a noise word
C28_Witness ==
    /\ pc = "extracted"
    /\ Len(user_input) = 2
    /\ Lower(user_input[1]) \in search_terms
    /\ returned.company_name = <<user_input[1]>>
    /\ editor_company_name(RetriedInput(user_input, 2)) = <<user_input[1]>>

----------------------------------------------------------------------------
(* C29 *)

\* an answer of the LLM with no text in it
EmptyAnswer ==
    [EmptyReport EXCEPT !.base = [n \in CompanyBases |-> 0],
                        !.poss = [n \in CompanyBases |-> 0],
                        !.inc = [n \in CompanyBases |-> 0]]

\* C29: a run that ends without an exception ends with a non-empty
\* final_report: after finalize it is what the Editor returned last, the
\* banner with the clean company name followed by the edited text, and no
\* text the Writer left; after the early exit it is the disclaimer. Even an
\* empty answer to the Editor leaves the banner.
C29_TerminalReportNonEmpty ==
    pc = "END" =>
        /\ final_report.len > 0
        /\ decision = "finalize" =>
              /\ executed["editor"] > 0
              /\ final_report = returned.final_report
              /\ final_report.company = editor_company_name(user_input)
              /\ final_report.len >= metadata_len + JoinLen(final_report.company)
              /\ final_report \notin LLMReports \cup {EmptyReport}
              /\ formatted_report(editor_company_name(user_input), EmptyAnswer).len > 0
        /\ decision # "finalize" =>
              /\ executed["insufficient_data_handler"] = 1
              /\ final_report = disclaimer_report(user_input[1], data_collection_attempts)
              /\ "Insufficient Data Available" \in final_report.phrases

\* a run finalized at once after one data-collection retry, with the banner
\* of its company on the report
C29_Witness ==
    /\ pc = "END"
    /\ decision = "finalize"
    /\ data_collection_attempts = 1
    /\ writing_attempts = 0
    /\ final_report.company = <<"Acme", "Corp">>
    /\ final_report.len > metadata_len

----------------------------------------------------------------------------
(* C30 *)

\* the nodes of the data-collection side of the graph
CollectionSide ==
    {"data_collector", "analyst", "retry_data_collection", "insufficient_data_handler"}

\* C30: once the Writer has executed, no node of the data-collection side
\* executes again, and user_input, raw_data, data_sources, key_metrics,
\* insights, trends and data_collection_attempts keep their values; only
\* final_report, current_step, messages and writing_attempts still change.
C30_WritingSideFrame ==
    [][executed["writer"] > 0 =>
          /\ \A n \in CollectionSide : executed'[n] = executed[n]
          /\ pc' \notin CollectionSide
          /\ UNCHANGED <<user_input, raw_data, data_sources, key_metrics, insights,
                         trends, data_collection_attempts>>]_vars

\* a run that retried data collection twice and then revised its report
\* twice before it was finalized
C30_Witness ==
    /\ pc = "END"
    /\ executed["data_collector"] = 3
    /\ executed["writer"] = 3
    /\ executed["editor"] = 3
    /\ current_step = "writing"

====
